---- MODULE Spec2Model ----
(***************************************************************************)
(* A model of extra-tasks/geopedia/geopedia.py: the raster importer        *)
(* AddGeopediaFeatureTask and the vector importer GeopediaVectorImportTask.*)
(*                                                                         *)
(* Python's None is the empty tuple <<>>; a present value x is <<x>>.      *)
(* Rasters are functions from the cells <<row, col>> of a grid to labels.  *)
(* The collaborators (the WMS client, the feature iterator, rasterio.warp, *)
(* pyproj and geopandas) are modelled by what the calls in the source ask  *)
(* of them; their answers are inputs of the actions.                       *)
(***************************************************************************)
EXTENDS Integers, Sequences, FiniteSets, TLC

VARIABLES
    eopatch,        \* the patch the raster importer works on: mask, bbox, layer
    task,           \* the AddGeopediaFeatureTask of the last call
    request_data,   \* what request.get_data() returned in the last call
    rerr,           \* how the last raster execute ended ("init" before any call)
    repeated,       \* the last call had the task and the tiles of the call before it
    cls_in,         \* classification of one pixel: the inputs
    cls_out,        \* classification of one pixel: the label, once computed
    vtask,          \* the GeopediaVectorImportTask: reproject, clip, dataset_crs
    table,          \* the features of the remote Geopedia table
    vpatch,         \* the caller's patch for the vector importer
    vargs,          \* the arguments of the last vector execute
    vret,           \* the patch the last vector execute returned, if any
    verr            \* how the last vector execute ended ("init" before any call)

vars == <<eopatch, task, request_data, rerr, repeated, cls_in, cls_out,
          vtask, table, vpatch, vargs, vret, verr>>

rasterVars == <<eopatch, task, request_data, rerr, repeated>>
classifyVars == <<cls_in, cls_out>>
vectorVars == <<vtask, table, vpatch, vargs, vret, verr>>

None == <<>>
Some(x) == <<x>>

(***************************************************************************)
(* Bounds and input domains.                                               *)
(***************************************************************************)
\* A multi-class mapping has at most MaxClasses classes.
MaxClasses == 2
\* The remote table has at most MaxFeatures features.
MaxFeatures == 3
\* The tolerance mean_abs_difference ranges over 0..MaxTol.
MaxTol == 2

\* The labels of the binary classes and the no-data fill values tasks are
\* configured with.
Labels == {1, 2}
NoDataVals == {0, 3}

\* (height, width) of the IS_DATA mask.
GridShapes == {<<1, 2>>, <<2, 1>>, <<2, 2>>}
Cells(shape) == (1..shape[1]) \X (1..shape[2])

CRSs == {"POP_WEB", "WGS84", "UTM"}

\* RGBA colours.
Transparent == <<0, 0, 0, 0>>
Palette == {Transparent, <<2, 0, 0, 4>>, <<2, 2, 0, 4>>, <<2, 2, 2, 4>>, <<4, 4, 4, 4>>}
TileColours == {Transparent, <<2, 2, 2, 4>>}

(***************************************************************************)
(* The errors of the two execute methods, by what the code raises.         *)
(***************************************************************************)
MissingPrerequisiteLayerError == "KeyError: IS_DATA"
MissingBoundingRegionRasterError == "ValueError: Bbox has to be defined!"
UnexpectedResponseError == "ValueError: unpack"
UnsupportedConfigurationError == "ValueError: Unsupported raster value type"
SqueezedIndexError == "IndexError: too many indices for array"
NoFeatureError == "IndexError: list index out of range"
EmptyDatasetError == "ValueError: table does not contain geometries!"
MissingBoundingRegionError == "ValueError: To reproject vector data, eopatch.bbox has to be defined!"
MissingBoundingRegionClipError == "ValueError: To clip vector data, eopatch.bbox has to be defined!"
CrsMismatchError == "ValueError: To clip, vectors should be in same CRS as EOPatch bbox!"

(***************************************************************************)
(* AddGeopediaFeatureTask                                                  *)
(***************************************************************************)
Abs(x) == IF x < 0 THEN 0 - x ELSE x

RECURSIVE SumAbsDiff(_, _, _)
SumAbsDiff(pixel, intensities, i) ==
    IF i > Len(pixel) THEN 0
    ELSE Abs(pixel[i] - intensities[i]) + SumAbsDiff(pixel, intensities, i + 1)

\* Mutant of MeanAbsBelow: the comparison admits equality.
MeanAbsAtMost(pixel, intensities, tol) ==
    SumAbsDiff(pixel, intensities, 1) <= tol * Len(pixel)

\* np.mean(np.abs(pixel - intensities), axis=-1) < mean_abs_difference
MeanAbsBelow(pixel, intensities, tol) ==
    SumAbsDiff(pixel, intensities, 1) < tol * Len(pixel)

\* Mutant of ClassifyFrom: a pixel keeps the label of the first class it matches.
ClassifyFirstMatch(pixel, classes, i, tol, cur) ==
    LET hits == {j \in i..Len(classes) : MeanAbsBelow(pixel, classes[j].intensities, tol)}
    IN  IF hits = {} THEN cur
        ELSE classes[CHOOSE j \in hits : \A k \in hits : j <= k].value

\* The loop of _map_from_multiclass on one pixel, from class i on; cur is the
\* pixel's label so far.
RECURSIVE ClassifyFrom(_, _, _, _, _)
ClassifyFrom(pixel, classes, i, tol, cur) ==
    IF i > Len(classes) THEN cur
    ELSE ClassifyFrom(pixel, classes, i + 1, tol,
                      IF MeanAbsBelow(pixel, classes[i].intensities, tol)
                      THEN classes[i].value ELSE cur)

ClassifyPixel(pixel, classes, tol, no_data_val) ==
    ClassifyFrom(pixel, classes, 1, tol, no_data_val)

\* (array[..., -1] > 0).astype(dtype) * binaries_raster_value
ToBinaryMask(tile, shape, value) ==
    [c \in Cells(shape) |-> IF tile[c][Len(tile[c])] > 0 THEN 1 * value ELSE 0 * value]

\* The source cell rasterio.warp.reproject samples for a destination cell:
\* both grids have the same dimensions and span the same bbox, so for a patch
\* already in POP_WEB the two transforms are equal; for another CRS the
\* destination grid is displaced and part of it falls outside the source.
Outside == <<0, 0>>
SrcCell(crs, shape, c) ==
    IF crs = "POP_WEB" THEN c
    ELSE IF crs = "WGS84"
         THEN IF c[2] + 1 <= shape[2] THEN <<c[1], c[2] + 1>> ELSE Outside
         ELSE IF c[1] + 1 <= shape[1] THEN <<c[1] + 1, c[2]>> ELSE Outside

\* _reproject: src_nodata=0, dst_nodata=no_data_val
Reproject(bbox, shape, src_raster, no_data_val) ==
    [c \in Cells(shape) |->
        LET s == SrcCell(bbox.crs, shape, c)
        IN  IF s = Outside \/ src_raster[s] = 0 THEN no_data_val ELSE src_raster[s]]

\* Mutant of UpdateRaster: the new labels are added to the base raster.
UpdateRasterAdds(raster, new_raster) ==
    [c \in DOMAIN raster |->
        IF new_raster[c] # 0 THEN raster[c] + new_raster[c] ELSE raster[c]]

\* raster[new_raster != 0] = new_raster[new_raster != 0]
UpdateRaster(raster, new_raster) ==
    [c \in DOMAIN raster |-> IF new_raster[c] # 0 THEN new_raster[c] ELSE raster[c]]

\* squeeze() of the stored (height, width, 1) layer keeps two dimensions only
\* when neither height nor width is 1.
SqueezeKeeps2D(shape) == shape[1] # 1 /\ shape[2] # 1

\* _map_from_binaries: [err, raster]
MapFromBinaries(patch, shape, tile, t) ==
    LET new_raster == Reproject(patch.bbox[1], shape,
                                ToBinaryMask(tile, shape, t.raster_value.value),
                                t.no_data_val)
    IN  IF patch.layer # None
        THEN IF SqueezeKeeps2D(shape)
             THEN [err |-> "ok", raster |-> UpdateRaster(patch.layer[1], new_raster)]
             ELSE [err |-> SqueezedIndexError, raster |-> new_raster]
        ELSE [err |-> "ok",
              raster |-> UpdateRaster([c \in Cells(shape) |-> 1 * t.no_data_val],
                                      new_raster)]

\* _map_from_multiclass: [err, raster]
MapFromMulticlass(patch, shape, tile, t) ==
    [err |-> "ok",
     raster |-> Reproject(patch.bbox[1], shape,
                          [c \in Cells(shape) |->
                              ClassifyPixel(tile[c], t.raster_value.classes,
                                            t.mean_abs_difference, t.no_data_val)],
                          t.no_data_val)]

\* execute: [err, patch]
RasterExecuteResult(patch, t, tiles) ==
    IF patch.mask = None
    THEN [err |-> MissingPrerequisiteLayerError, patch |-> patch]
    ELSE IF patch.bbox = None
    THEN [err |-> MissingBoundingRegionRasterError, patch |-> patch]
    ELSE IF Len(tiles) # 1
    THEN [err |-> UnexpectedResponseError, patch |-> patch]
    ELSE LET shape == patch.mask[1]
             res == IF t.raster_value.kind = "dict"
                    THEN MapFromMulticlass(patch, shape, tiles[1], t)
                    ELSE IF t.raster_value.kind = "scalar"
                    THEN MapFromBinaries(patch, shape, tiles[1], t)
                    ELSE [err |-> UnsupportedConfigurationError, raster |-> <<>>]
         IN  IF res.err # "ok"
             THEN [err |-> res.err, patch |-> patch]
             ELSE [err |-> "ok", patch |-> [patch EXCEPT !.layer = Some(res.raster)]]

\* The ClassSpecs a task is constructed with.
Scalar(v) == [kind |-> "scalar", value |-> v, classes |-> <<>>]
Mapping(cs) == [kind |-> "dict", value |-> 0, classes |-> cs]
Unsupported == [kind |-> "other", value |-> 0, classes |-> <<>>]
Class(v, col) == [value |-> v, intensities |-> col]

RasterValues ==
    {Scalar(v) : v \in Labels}
    \cup {Mapping(<<Class(0, Transparent), Class(2, <<2, 2, 2, 4>>)>>)}
    \cup {Unsupported}

DefaultTolerance == 2

RasterTasks ==
    [raster_value : RasterValues, no_data_val : NoDataVals,
     mean_abs_difference : {DefaultTolerance}]

RasterBBoxes == {[crs |-> c, ext |-> <<0, 0, 10, 10>>] : c \in CRSs}

BlankTile(shape) == [c \in Cells(shape) |-> Transparent]

\* The tile lists request.get_data() can return for a width x height request.
Responses(patch) ==
    IF patch.mask = None \/ patch.bbox = None THEN {<<>>}
    ELSE LET shape == patch.mask[1]
         IN  {<<>>, <<BlankTile(shape), BlankTile(shape)>>}
             \cup {<<tile>> : tile \in [Cells(shape) -> TileColours]}

RasterExecute ==
    \E t \in {x \in RasterTasks : x.no_data_val = task.no_data_val} :
    \E tiles \in Responses(eopatch) :
        LET res == RasterExecuteResult(eopatch, t, tiles)
        IN  /\ eopatch' = res.patch
            /\ task' = t
            /\ request_data' = tiles
            /\ rerr' = res.err
            /\ repeated' = (rerr = "ok" /\ task = t /\ request_data = tiles)

RasterInit ==
    /\ eopatch \in [mask : {None} \cup {Some(s) : s \in GridShapes},
                    bbox : {None} \cup {Some(b) : b \in RasterBBoxes},
                    layer : {None}]
    /\ task \in {x \in RasterTasks : x.raster_value = Unsupported}
    /\ request_data = <<>>
    /\ rerr = "init"
    /\ repeated = FALSE

ClassifyIdle == cls_in = <<>> /\ cls_out = <<>>
VectorIdle ==
    /\ vtask = <<>> /\ table = <<>> /\ vpatch = <<>>
    /\ vargs = <<>> /\ vret = <<>> /\ verr = "init"

InitRaster == RasterInit /\ ClassifyIdle /\ VectorIdle
NextRaster == RasterExecute /\ UNCHANGED <<classifyVars, vectorVars>>
SpecRaster == InitRaster /\ [][NextRaster]_vars


(***************************************************************************)
(* The classification of _map_from_multiclass, one pixel at a time.        *)
(***************************************************************************)
ClassValues == {0} \cup Labels
ClassSpecs ==
    UNION {[1..n -> [value : ClassValues, intensities : Palette]] : n \in 1..MaxClasses}

ClassifyInit ==
    /\ cls_in \in [pixel : Palette, classes : ClassSpecs,
                   mean_abs_difference : 0..MaxTol, no_data_val : NoDataVals]
    /\ cls_out = None

Classify ==
    /\ cls_out = None
    /\ cls_out' = Some(ClassifyPixel(cls_in.pixel, cls_in.classes,
                                     cls_in.mean_abs_difference, cls_in.no_data_val))
    /\ UNCHANGED cls_in

RasterIdle ==
    /\ eopatch = <<>> /\ task = <<>> /\ request_data = <<>>
    /\ rerr = "init" /\ repeated = FALSE

InitClassify == ClassifyInit /\ RasterIdle /\ VectorIdle
NextClassify == Classify /\ UNCHANGED <<rasterVars, vectorVars>>
SpecClassify == InitClassify /\ [][NextClassify]_vars

(***************************************************************************)
(* GeopediaVectorImportTask                                                *)
(***************************************************************************)
\* Coordinates of one place differ from CRS to CRS; pyproj's change of
\* coordinates is a per-CRS displacement here.
CrsOffset(crs) == IF crs = "WGS84" THEN 0 ELSE IF crs = "UTM" THEN 20 ELSE 40

TransformBox(box, from, to) ==
    [i \in 1..4 |-> box[i] - CrsOffset(from) + CrsOffset(to)]

BBox(ext, crs) == [crs |-> crs, ext |-> ext]

\* bbox.transform_bounds(CRS.POP_WEB)
TransformBounds(bbox, crs) == BBox(TransformBox(bbox.ext, bbox.crs, crs), crs)

Min2(a, b) == IF a < b THEN a ELSE b
Max2(a, b) == IF a > b THEN a ELSE b

\* vectors.total_bounds over the rows from i on that have a geometry; acc is
\* the bounds so far (<<>> when no row had one).
RECURSIVE BoundsFrom(_, _, _)
BoundsFrom(rows, i, acc) ==
    IF i > Len(rows) THEN acc
    ELSE IF rows[i] = None THEN BoundsFrom(rows, i + 1, acc)
    ELSE LET b == rows[i][1]
         IN  BoundsFrom(rows, i + 1,
                        IF acc = <<>> THEN b
                        ELSE <<Min2(acc[1], b[1]), Min2(acc[2], b[2]),
                               Max2(acc[3], b[3]), Max2(acc[4], b[4])>>)

\* Mutant of TotalBounds: the bounds of the first row only.
TotalBoundsOfFirst(vectors) == vectors.rows[1][1]

TotalBounds(vectors) == BoundsFrom(vectors.rows, 1, <<>>)

\* _load_vector_data: [err, task, vectors]
LoadVectorData(t, bbox, geopedia_features) ==
    IF Len(geopedia_features) = 0
    THEN [err |-> NoFeatureError, task |-> t, vectors |-> <<>>]
    ELSE IF geopedia_features[1].geometry = None
    THEN [err |-> EmptyDatasetError, task |-> t, vectors |-> <<>>]
    ELSE LET crs == geopedia_features[1].geometry[1].crs
         IN  [err |-> "ok",
              task |-> [t EXCEPT !.dataset_crs = Some(crs)],
              vectors |-> [crs |-> crs,
                           rows |-> [i \in 1..Len(geopedia_features) |->
                                       IF geopedia_features[i].geometry = None THEN None
                                       ELSE Some(geopedia_features[i].geometry[1].box)]]]

\* vectors.to_crs(crs)
ToCrs(vectors, crs) ==
    [crs |-> crs,
     rows |-> [i \in 1..Len(vectors.rows) |->
                 IF vectors.rows[i] = None THEN None
                 ELSE Some(TransformBox(vectors.rows[i][1], vectors.crs, crs))]]

\* gpd.clip(vectors, extent, keep_geom_type=True): each geometry is cut to the
\* extent; a row whose cut is empty or no longer an area is dropped.
RECURSIVE ClipRows(_, _, _)
ClipRows(rows, ext, i) ==
    IF i > Len(rows) THEN <<>>
    ELSE IF rows[i] = None THEN ClipRows(rows, ext, i + 1)
    ELSE LET b == rows[i][1]
             cut == <<Max2(b[1], ext[1]), Max2(b[2], ext[2]),
                      Min2(b[3], ext[3]), Min2(b[4], ext[4])>>
         IN  IF cut[1] < cut[3] /\ cut[2] < cut[4]
             THEN <<Some(cut)>> \o ClipRows(rows, ext, i + 1)
             ELSE ClipRows(rows, ext, i + 1)

Clip(vectors, bbox) == [crs |-> vectors.crs, rows |-> ClipRows(vectors.rows, bbox.ext, 1)]

\* The clip half of _reproject_and_clip.
ClipStep(t, vectors, bbox) ==
    IF ~t.clip THEN [err |-> "ok", vectors |-> vectors]
    ELSE IF bbox = None THEN [err |-> MissingBoundingRegionClipError, vectors |-> vectors]
    ELSE IF vectors.crs # bbox[1].crs THEN [err |-> CrsMismatchError, vectors |-> vectors]
    ELSE [err |-> "ok", vectors |-> Clip(vectors, bbox[1])]

\* Mutant of ReprojectAndClip: reprojection is skipped when there is no bbox.
ReprojectAndClipSkipsReproject(t, vectors, bbox) ==
    ClipStep(t, IF t.reproject /\ bbox # None THEN ToCrs(vectors, bbox[1].crs) ELSE vectors,
             bbox)

\* Mutant of ReprojectAndClip: the clip does not compare the CRSs.
ReprojectAndClipNoCrsCheck(t, vectors, bbox) ==
    IF t.reproject /\ bbox = None
    THEN [err |-> MissingBoundingRegionError, vectors |-> vectors]
    ELSE LET v == IF t.reproject THEN ToCrs(vectors, bbox[1].crs) ELSE vectors
         IN  IF ~t.clip THEN [err |-> "ok", vectors |-> v]
             ELSE IF bbox = None
             THEN [err |-> MissingBoundingRegionClipError, vectors |-> v]
             ELSE [err |-> "ok", vectors |-> Clip(v, bbox[1])]

\* _reproject_and_clip: [err, vectors]
ReprojectAndClip(t, vectors, bbox) ==
    IF t.reproject /\ bbox = None
    THEN [err |-> MissingBoundingRegionError, vectors |-> vectors]
    ELSE ClipStep(t, IF t.reproject THEN ToCrs(vectors, bbox[1].crs) ELSE vectors, bbox)

\* EOPatch(bbox=final_bbox)
NewPatch(final_bbox) == [bbox |-> Some(final_bbox), vec |-> None]

\* Mutant of AssignBBox: the patch's bbox is always overwritten.
AssignBBoxAlways(patch, final_bbox) == [patch EXCEPT !.bbox = Some(final_bbox)]

\* if eopatch.bbox is None: eopatch.bbox = final_bbox
AssignBBox(patch, final_bbox) ==
    IF patch.bbox = None THEN [patch EXCEPT !.bbox = Some(final_bbox)] ELSE patch

\* The bbox execute works with: the argument, else the supplied patch's.
ResolveBBox(patch_in, bbox_arg) ==
    IF bbox_arg = None /\ patch_in # None THEN patch_in[1].bbox ELSE bbox_arg

\* execute: [err, task, patch, ret]; patch is the supplied patch (if any) as
\* the call leaves it, ret the returned patch.
VectorExecuteResult(t, patch_in, bbox_arg, geopedia_features) ==
    LET bbox == ResolveBBox(patch_in, bbox_arg)
        load == LoadVectorData(t, bbox, geopedia_features)
    IN  IF load.err # "ok"
        THEN [err |-> load.err, task |-> load.task, patch |-> patch_in, ret |-> None]
        ELSE LET vectors == load.vectors
                 final_bbox == IF bbox # None THEN bbox[1]
                               ELSE BBox(TotalBounds(vectors), vectors.crs)
                 made == IF patch_in # None THEN patch_in[1] ELSE NewPatch(final_bbox)
                 boxed == AssignBBox(made, final_bbox)
                 rc == ReprojectAndClip(load.task, vectors, bbox)
             IN  IF rc.err # "ok"
                 THEN [err |-> rc.err, task |-> load.task,
                       patch |-> IF patch_in # None THEN Some(boxed) ELSE None,
                       ret |-> None]
                 ELSE LET done == [boxed EXCEPT !.vec = Some(rc.vectors)]
                      IN  [err |-> "ok", task |-> load.task,
                           patch |-> IF patch_in # None THEN Some(done) ELSE None,
                           ret |-> Some(done)]

\* The inputs of the vector importer.
DatasetCRSs == {"WGS84", "UTM"}
Geoms == {<<0, 0, 5, 5>>, <<5, 5, 10, 10>>}
Extents == {<<0, 0, 10, 10>>, <<0, 0, 7, 7>>}

NoGeometry == [geometry |-> None]
Geometry(crs, box) ==
    [geometry |-> Some([crs |-> crs, box |-> TransformBox(box, "WGS84", crs)])]

Tables ==
    UNION {[1..n -> {NoGeometry} \cup {Geometry(crs, g) : g \in Geoms}] :
               n \in 0..MaxFeatures, crs \in DatasetCRSs}

VectorBBoxes ==
    {BBox(TransformBox(e, "WGS84", crs), crs) : e \in Extents, crs \in DatasetCRSs}
BBoxArgs == {None} \cup {Some(b) : b \in VectorBBoxes}

VectorInit ==
    /\ vtask \in [reproject : BOOLEAN, clip : BOOLEAN, dataset_crs : {None}]
    /\ table \in Tables
    /\ vpatch \in [bbox : BBoxArgs, vec : {None}]
    /\ vargs = [eopatch |-> FALSE, bbox |-> None, prepared_bbox |-> None]
    /\ vret = None
    /\ verr = "init"

VectorExecute ==
    \E supplied \in BOOLEAN :
    \E bbox_arg \in BBoxArgs :
        LET patch_in == IF supplied THEN Some(vpatch) ELSE None
            bbox == ResolveBBox(patch_in, bbox_arg)
            res == VectorExecuteResult(vtask, patch_in, bbox_arg, table)
        IN  /\ vargs' = [eopatch |-> supplied, bbox |-> bbox_arg,
                         prepared_bbox |-> IF bbox # None
                                           THEN Some(TransformBounds(bbox[1], "POP_WEB"))
                                           ELSE None]
            /\ vtask' = res.task
            /\ vpatch' = IF supplied THEN res.patch[1] ELSE vpatch
            /\ vret' = res.ret
            /\ verr' = res.err
            /\ UNCHANGED table

InitVector == VectorInit /\ RasterIdle /\ ClassifyIdle
NextVector == VectorExecute /\ UNCHANGED <<rasterVars, classifyVars>>
SpecVector == InitVector /\ [][NextVector]_vars


(***************************************************************************)
(* Properties of the raster importer, under SpecRaster.                    *)
(***************************************************************************)
IsBinary(t) == t.raster_value.kind = "scalar"

\* The cells of a tile that are opaque.
OpaqueCells(tile) == {c \in DOMAIN tile : tile[c][4] > 0}

\* The cells of the patch's grid onto which the opaque cells of a tile fall.
Footprint(patch, tile) ==
    {c \in Cells(patch.mask[1]) :
        SrcCell(patch.bbox[1].crs, patch.mask[1], c) \in OpaqueCells(tile)}

\* C1: a binary execute that directly follows a successful execute of the same
\* task on the same patch with the same remote tile leaves the target layer
\* as the first execute left it.
C1_MergeIdempotent ==
    [][(repeated' /\ IsBinary(task')) => eopatch'.layer = eopatch.layer]_vars

C1_Witness ==
    /\ repeated /\ rerr = "ok" /\ IsBinary(task)
    /\ \E c, d \in DOMAIN eopatch.layer[1] :
           /\ eopatch.layer[1][c] = task.raster_value.value
           /\ eopatch.layer[1][d] # task.raster_value.value

\* C2: on a grid of at least 2 x 2 cells, a binary import of class B that
\* directly follows a successful binary import of class A (another label, the
\* same no-data fill value, whatever it is, opaque cells of the two tiles
\* disjoint) succeeds and leaves A's label on A's footprint and B's label on
\* B's footprint.
C2_MergeAccumulates ==
    [][(/\ rerr = "ok" /\ IsBinary(task) /\ IsBinary(task')
        /\ SqueezeKeeps2D(eopatch.mask[1])
        /\ Len(request_data') = 1
        /\ task'.raster_value.value # task.raster_value.value
        /\ task'.no_data_val = task.no_data_val
        /\ OpaqueCells(request_data[1]) \cap OpaqueCells(request_data'[1]) = {})
       => /\ rerr' = "ok"
          /\ \A c \in Footprint(eopatch, request_data[1]) :
                 eopatch'.layer[1][c] = task.raster_value.value
          /\ \A c \in Footprint(eopatch, request_data'[1]) :
                 eopatch'.layer[1][c] = task'.raster_value.value]_vars

(***************************************************************************)
(* Properties of the classification, under SpecClassify.                   *)
(***************************************************************************)
\* The classes of the mapping within tolerance of the pixel.
Matching ==
    {i \in 1..Len(cls_in.classes) :
        SumAbsDiff(cls_in.pixel, cls_in.classes[i].intensities, 1)
            < 4 * cls_in.mean_abs_difference}

Last(S) == CHOOSE i \in S : \A j \in S : j <= i

\* Reference colours pairwise different and none within tolerance of another.
WellSeparated ==
    \A i, j \in 1..Len(cls_in.classes) :
        i # j => /\ cls_in.classes[i].intensities # cls_in.classes[j].intensities
                 /\ SumAbsDiff(cls_in.classes[i].intensities,
                               cls_in.classes[j].intensities, 1)
                        >= 4 * cls_in.mean_abs_difference

\* C3: a pixel within tolerance of two or more classes gets the label of the
\* last of them in the mapping's iteration order.
C3_LastWriteWins ==
    (cls_out # None /\ Cardinality(Matching) >= 2)
        => cls_out[1] = cls_in.classes[Last(Matching)].value

C3_Witness ==
    /\ cls_out # None /\ Cardinality(Matching) >= 2
    /\ \E i \in Matching : cls_in.classes[i].value # cls_in.classes[Last(Matching)].value
    /\ cls_out[1] # cls_in.no_data_val

\* C4 as stated: with well separated reference colours and any tolerance, a
\* pixel of exactly class C's colour gets C's label, wherever C stands in the
\* mapping.
C4_ExactMatchAnyTolerance ==
    (cls_out # None /\ WellSeparated)
        => \A i \in 1..Len(cls_in.classes) :
               cls_in.pixel = cls_in.classes[i].intensities
                   => cls_out[1] = cls_in.classes[i].value

\* C4 amended: the same for every tolerance above 0.
C4_ExactMatchPositiveTolerance ==
    (cls_out # None /\ WellSeparated /\ cls_in.mean_abs_difference > 0)
        => \A i \in 1..Len(cls_in.classes) :
               cls_in.pixel = cls_in.classes[i].intensities
                   => cls_out[1] = cls_in.classes[i].value

C4_Witness ==
    /\ cls_out # None /\ WellSeparated /\ cls_in.mean_abs_difference > 0
    /\ Len(cls_in.classes) >= 2
    /\ cls_in.pixel = cls_in.classes[1].intensities
    /\ cls_in.classes[2].value # cls_in.classes[1].value
    /\ cls_in.classes[1].value # cls_in.no_data_val
    /\ cls_out[1] = cls_in.classes[1].value

(***************************************************************************)
(* Properties of the vector importer, under SpecVector.                    *)
(***************************************************************************)
HasGeometry == Len(table) > 0 /\ table[1].geometry # None

\* The boxes of the fetched features and their common extent.
FetchedBoxes == {table[i].geometry[1].box : i \in {j \in 1..Len(table) : table[j].geometry # None}}
Least(S) == CHOOSE x \in S : \A y \in S : x <= y
Greatest(S) == CHOOSE x \in S : \A y \in S : x >= y
FetchedExtent ==
    <<Least({b[1] : b \in FetchedBoxes}), Least({b[2] : b \in FetchedBoxes}),
      Greatest({b[3] : b \in FetchedBoxes}), Greatest({b[4] : b \in FetchedBoxes})>>

\* The resolved bounding region of a call with arguments a on patch p.
Resolved(p, a) ==
    IF a.bbox # None THEN a.bbox ELSE IF a.eopatch THEN p.bbox ELSE None

\* The table returns 3 features, each with a geometry, of combined extent
\* (0,0)-(10,10), and the last call had no patch and no bbox.
WholeDatasetCall ==
    /\ verr # "init" /\ ~vargs.eopatch /\ vargs.bbox = None
    /\ Len(table) = 3 /\ \A i \in 1..3 : table[i].geometry # None
    /\ FetchedExtent = <<0, 0, 10, 10>>

WholeDatasetReturned ==
    /\ verr = "ok"
    /\ vret # None
    /\ vret[1].bbox = Some(BBox(<<0, 0, 10, 10>>, table[1].geometry[1].crs))
    /\ vret[1].vec # None
    /\ vret[1].vec[1].crs = table[1].geometry[1].crs
    /\ Len(vret[1].vec[1].rows) = 3

\* C5 as stated: called with no patch and no bbox on a table of 3 features of
\* combined extent (0,0)-(10,10), execute returns a patch with that bbox in
\* the dataset's CRS and 3 records in the vector layer.
C5_WholeDataset == WholeDatasetCall => WholeDatasetReturned

\* C5 amended: the same for a task constructed with reproject and clip off.
C5_WholeDatasetNoReprojectNoClip ==
    (WholeDatasetCall /\ ~vtask.reproject /\ ~vtask.clip) => WholeDatasetReturned

C5_Witness ==
    /\ WholeDatasetCall /\ ~vtask.reproject /\ ~vtask.clip /\ WholeDatasetReturned
    /\ table[1].geometry[1].box # <<0, 0, 10, 10>>

\* C6 as stated: after a successful execute the returned patch's bbox is the
\* resolved bbox when there is one, else the extent of the fetched geometries
\* in the dataset's CRS.
C6_ReturnedBBoxIsResolved ==
    [][verr' = "ok" =>
          vret'[1].bbox = IF Resolved(vpatch, vargs') # None
                          THEN Resolved(vpatch, vargs')
                          ELSE Some(BBox(FetchedExtent, table[1].geometry[1].crs))]_vars

\* C6 amended: the returned patch's bbox is the supplied patch's own bbox when
\* it has one, else the bbox argument when given, else the extent of the
\* fetched geometries in the dataset's CRS.
C6_ReturnedBBoxKeepsPatchBBox ==
    [][verr' = "ok" =>
          vret'[1].bbox = IF vargs'.eopatch /\ vpatch.bbox # None THEN vpatch.bbox
                          ELSE IF vargs'.bbox # None THEN vargs'.bbox
                          ELSE Some(BBox(FetchedExtent, table[1].geometry[1].crs))]_vars

C6_Witness ==
    /\ verr = "ok" /\ vargs.eopatch /\ vargs.bbox # None
    /\ vret[1].bbox # vargs.bbox

\* C7: with clip on and reproject off, a call whose fetched geometries are in
\* another CRS than the resolved bbox fails with the CRS-mismatch error,
\* which is none of the other errors.
C7_ClipWithoutReproject ==
    [][(/\ vtask.clip /\ ~vtask.reproject /\ HasGeometry
        /\ Resolved(vpatch, vargs') # None
        /\ table[1].geometry[1].crs # Resolved(vpatch, vargs')[1].crs)
       => /\ verr' = CrsMismatchError
          /\ vret' = None
          /\ CrsMismatchError \notin {MissingBoundingRegionError,
                                      MissingBoundingRegionClipError,
                                      EmptyDatasetError, NoFeatureError}]_vars

C7_Witness ==
    /\ verr = CrsMismatchError /\ vtask.clip /\ ~vtask.reproject
    /\ vargs.bbox # None /\ HasGeometry
    /\ table[1].geometry[1].crs # vargs.bbox[1].crs

\* C8 as stated, for a fetch that returns at least one feature: with reproject
\* on and no resolved bbox, execute fails with MissingBoundingRegionError and
\* returns no patch.
C8_ReprojectWithoutBBox ==
    [][(vtask.reproject /\ Resolved(vpatch, vargs') = None /\ Len(table) > 0)
       => (verr' = MissingBoundingRegionError /\ vret' = None)]_vars

\* C8 amended: the same when the fetch returned features of which the first
\* has a geometry.
C8_ReprojectWithoutBBoxOnGeometry ==
    [][(vtask.reproject /\ Resolved(vpatch, vargs') = None /\ HasGeometry)
       => (verr' = MissingBoundingRegionError /\ vret' = None)]_vars

C8_Witness ==
    /\ verr = MissingBoundingRegionError /\ vtask.reproject
    /\ ~vargs.eopatch /\ vargs.bbox = None /\ HasGeometry /\ vret = None

\* C9: a fetch that returns no feature, or a first feature without geometry,
\* makes execute fail with EmptyDatasetError.
C9_EmptyDataset ==
    (verr # "init" /\ ~HasGeometry)
        => (verr = EmptyDatasetError /\ vret = None /\ vtask.dataset_crs = None)

\* C10: an execute that fails leaves the supplied patch as it was.
C10_FailureLeavesPatch ==
    [][(verr' # "ok" /\ vargs'.eopatch) => vpatch' = vpatch]_vars

====
